---------------------------- MODULE Spec2Model ----------------------------
(***************************************************************************)
(* Model of scripts/pre-commit.py, the commit gate of sighol/clog.         *)
(*                                                                         *)
(*   4  status = subprocess.call(["cargo", "fmt", "--check", "--quiet"])   *)
(*   5  if status != 0:                                                    *)
(*   6      subprocess.check_call(["cargo", "fmt"])                        *)
(*   7      print("\x1b[102;1m Formatted. Please run git add\x1b[0m")      *)
(*   8      exit(status)                                                   *)
(*  10  subprocess.check_call(["cargo", "test"])                           *)
(*                                                                         *)
(* The script is one sequential process.  Its position is pc, named after  *)
(* the source line about to be executed ("l4w", "l6w", "l10w": blocked in  *)
(* the subprocess call of that line).  subprocess.call returns the child's *)
(* returncode: the exit status 0..255, or -N when signal N killed it.      *)
(* subprocess.check_call raises CalledProcessError on a non-zero           *)
(* returncode; both raise OSError when the program cannot be launched.     *)
(* An uncaught exception ends the interpreter with status 1; exit(n) ends  *)
(* it with the low eight bits of n; falling off the end ends it with 0.    *)
(*                                                                         *)
(* The hook mechanism may run the gate again after a run has ended, and    *)
(* the user may edit the working tree between two runs.                    *)
(***************************************************************************)
EXTENDS Integers, Sequences, FiniteSets

\* Number of successive runs of the gate that are explored.
MaxRuns == 2
\* Highest signal number that kills a subprocess in the explored runs.
MaxSignal == 2
\* Highest normal exit status of a subprocess in the explored runs.
MaxExit == 3

\* The process exit status keeps the low eight bits of exit()'s argument.
ExitModulus == 256
\* The interpreter's exit status after an uncaught exception.
UncaughtExceptionStatus == 1
\* The interpreter's exit status when the script runs off its last line.
NormalEndStatus == 0

\* Popen.returncode: -N for a child killed by signal N, else its exit status.
ReturnCodes == ((0 - MaxSignal) .. (0 - 1)) \cup (0 .. MaxExit)

VARIABLES
    pc,          \* position of the script
    status,      \* the script's variable `status`: <<>> unset, <<rc>> set
    running,     \* the subprocesses currently alive
    log,         \* this run's events, in order
    fixRc,       \* returncode of `cargo fmt` in this run: <<>> or <<rc>>
    testRc,      \* returncode of `cargo test` in this run: <<>> or <<rc>>
    exitStatus,  \* exit status of the gate's process: <<>> or <<n>>
    outcome,     \* how this run ended
    formatted,   \* whether the working tree is canonically formatted
    autoFixed,   \* the tree is as a successful `cargo fmt` of the gate left it
    fixedBefore, \* autoFixed as it was when this run started
    run          \* number of this run

vars == <<pc, status, running, log, fixRc, testRc, exitStatus, outcome,
          formatted, autoFixed, fixedBefore, run>>

Count(ev) == Cardinality({i \in DOMAIN log : log[i] = ev})

\* First position of event ev in this run's log, 0 when it has not happened.
Pos(ev) ==
    IF \E i \in DOMAIN log : log[i] = ev
    THEN CHOOSE i \in DOMAIN log : log[i] = ev /\ \A j \in 1 .. (i - 1) : log[j] # ev
    ELSE 0

(***************************************************************************)
(* The external tools, by the exit-status contract the gate consumes.      *)
(***************************************************************************)

\* cargo fmt --check --quiet: 0 on a formatted tree, non-zero otherwise.
CheckerStatus(f) == IF f THEN {0} ELSE ReturnCodes \ {0}

\* cargo fmt: a successful run leaves the tree formatted; a failed run may
\* have rewritten any part of it.
FixerEffect(rc) == IF rc = 0 THEN {TRUE} ELSE BOOLEAN

(***************************************************************************)
(* The script's own decisions.                                             *)
(***************************************************************************)

DriftBranchAlways(s) == TRUE

DriftBranchInverted(s) == s = 0

\* line 5: if status != 0
DriftBranch(s) == s # 0

CheckCallIgnores(rc) == FALSE

\* lines 6 and 10: check_call raises CalledProcessError iff the returncode
\* is non-zero.
CheckCallRaises(rc) == rc # 0

ExitCodeConstant(n) == UncaughtExceptionStatus

\* line 8: exit(status), as the parent of the gate observes it.
ExitCode(n) == n % ExitModulus

TestEndVerbatim(rc) == rc % ExitModulus

\* line 10 and the end of the script: status of the process once cargo test
\* has returned rc.
TestEndStatus(rc) ==
    IF CheckCallRaises(rc) THEN UncaughtExceptionStatus ELSE NormalEndStatus

NoticeOutputNone == <<>>

\* line 7: print writes one line to standard output.
NoticeOutput == <<"notice">>

AfterSpawnNoWait(waitPc, nextPc) == nextPc

\* subprocess.call / check_call block the script until the child has ended.
AfterSpawn(waitPc, nextPc) == waitPc

AfterFixFailureRetry(s) == "l6"

\* line 6: a CalledProcessError is not caught anywhere: the script ends.
AfterFixFailure(s) == "done"

AfterExitFallThrough(s) == "l10"

\* line 8: exit() ends the script.
AfterExit(s) == "done"

(***************************************************************************)
(* Initial state: the hook starts the gate on some working tree.           *)
(***************************************************************************)
Init ==
    /\ pc = "l4"
    /\ status = <<>>
    /\ running = {}
    /\ log = <<>>
    /\ fixRc = <<>>
    /\ testRc = <<>>
    /\ exitStatus = <<>>
    /\ outcome = "running"
    /\ formatted \in BOOLEAN
    /\ autoFixed = FALSE
    /\ fixedBefore = FALSE
    /\ run = 1

\* An uncaught exception (OSError at launch) ends the run.
LaunchFails(tool) ==
    /\ log' = log \o <<tool \o "_start", tool \o "_oserror">>
    /\ pc' = "done"
    /\ exitStatus' = <<UncaughtExceptionStatus>>
    /\ outcome' = "launch_error"
    /\ UNCHANGED <<status, running, fixRc, testRc, formatted, autoFixed,
                   fixedBefore, run>>

Launch(tool, waitPc, nextPc) ==
    /\ log' = Append(log, tool \o "_start")
    /\ running' = running \cup {tool}
    /\ pc' = AfterSpawn(waitPc, nextPc)
    /\ UNCHANGED <<status, fixRc, testRc, exitStatus, outcome, formatted,
                   autoFixed, fixedBefore, run>>

(***************************************************************************)
(* line 4: status = subprocess.call(["cargo", "fmt", "--check", "--quiet"])*)
(***************************************************************************)
CheckStart ==
    /\ pc = "l4"
    /\ Launch("check", "l4w", "l5")

CheckLaunchFail ==
    /\ pc = "l4"
    /\ LaunchFails("check")

\* The checker ends; line 4 assigns status and line 5 branches on it.
CheckReturn ==
    /\ pc = "l4w"
    /\ "check" \in running
    /\ \E rc \in CheckerStatus(formatted) :
          /\ status' = <<rc>>
          /\ pc' = IF DriftBranch(rc) THEN "l6" ELSE "l10"
    /\ running' = running \ {"check"}
    /\ log' = Append(log, "check_ret")
    /\ UNCHANGED <<fixRc, testRc, exitStatus, outcome, formatted, autoFixed,
                   fixedBefore, run>>

(***************************************************************************)
(* line 6: subprocess.check_call(["cargo", "fmt"])                         *)
(***************************************************************************)
FixStart ==
    /\ pc = "l6"
    /\ Launch("fix", "l6w", "l7")

FixLaunchFail ==
    /\ pc = "l6"
    /\ LaunchFails("fix")

FixReturn ==
    /\ pc = "l6w"
    /\ "fix" \in running
    /\ \E rc \in ReturnCodes :
          /\ fixRc' = <<rc>>
          /\ formatted' \in FixerEffect(rc)
          /\ autoFixed' = (rc = 0)
          /\ IF CheckCallRaises(rc)
             THEN /\ pc' = AfterFixFailure(rc)
                  /\ exitStatus' = <<UncaughtExceptionStatus>>
                  /\ outcome' = "fixer_abort"
             ELSE /\ pc' = "l7"
                  /\ UNCHANGED <<exitStatus, outcome>>
    /\ running' = running \ {"fix"}
    /\ log' = Append(log, "fix_ret")
    /\ UNCHANGED <<status, testRc, fixedBefore, run>>

(***************************************************************************)
(* line 7: print("\x1b[102;1m Formatted. Please run git add\x1b[0m")       *)
(***************************************************************************)
PrintNotice ==
    /\ pc = "l7"
    /\ log' = log \o NoticeOutput
    /\ pc' = "l8"
    /\ UNCHANGED <<status, running, fixRc, testRc, exitStatus, outcome,
                   formatted, autoFixed, fixedBefore, run>>

(***************************************************************************)
(* line 8: exit(status)                                                    *)
(***************************************************************************)
ExitWithStatus ==
    /\ pc = "l8"
    /\ exitStatus' = <<ExitCode(status[1])>>
    /\ outcome' = "reformat_reject"
    /\ log' = Append(log, "exit")
    /\ pc' = AfterExit(status[1])
    /\ UNCHANGED <<status, running, fixRc, testRc, formatted, autoFixed,
                   fixedBefore, run>>

(***************************************************************************)
(* line 10: subprocess.check_call(["cargo", "test"]), then the script ends *)
(***************************************************************************)
TestStart ==
    /\ pc = "l10"
    /\ Launch("test", "l10w", "done")

TestLaunchFail ==
    /\ pc = "l10"
    /\ LaunchFails("test")

TestReturn ==
    /\ pc = "l10w"
    /\ "test" \in running
    /\ \E rc \in ReturnCodes :
          /\ testRc' = <<rc>>
          /\ exitStatus' = <<TestEndStatus(rc)>>
    /\ outcome' = "tests_finished"
    /\ running' = running \ {"test"}
    /\ log' = Append(log, "test_ret")
    /\ pc' = "done"
    /\ UNCHANGED <<status, fixRc, formatted, autoFixed, fixedBefore, run>>

(***************************************************************************)
(* The environment: the hook runs the gate again; the user edits the tree. *)
(***************************************************************************)
StartRun ==
    /\ pc = "done"
    /\ running = {}
    /\ run < MaxRuns
    /\ run' = run + 1
    /\ pc' = "l4"
    /\ status' = <<>>
    /\ log' = <<>>
    /\ fixRc' = <<>>
    /\ testRc' = <<>>
    /\ exitStatus' = <<>>
    /\ outcome' = "running"
    /\ fixedBefore' = autoFixed
    /\ UNCHANGED <<running, formatted, autoFixed>>

EditTree ==
    /\ pc = "done"
    /\ run < MaxRuns
    /\ formatted' \in BOOLEAN
    /\ autoFixed' = FALSE
    /\ UNCHANGED <<pc, status, running, log, fixRc, testRc, exitStatus,
                   outcome, fixedBefore, run>>

Next ==
    \/ CheckStart
    \/ CheckLaunchFail
    \/ CheckReturn
    \/ FixStart
    \/ FixLaunchFail
    \/ FixReturn
    \/ PrintNotice
    \/ ExitWithStatus
    \/ TestStart
    \/ TestLaunchFail
    \/ TestReturn
    \/ StartRun
    \/ EditTree

Spec == Init /\ [][Next]_vars

\* The interpreter keeps executing the script, and every subprocess that was
\* launched eventually returns.
GateStep ==
    \/ CheckStart
    \/ CheckLaunchFail
    \/ CheckReturn
    \/ FixStart
    \/ FixLaunchFail
    \/ FixReturn
    \/ PrintNotice
    \/ ExitWithStatus
    \/ TestStart
    \/ TestLaunchFail
    \/ TestReturn

FairSpec == Spec /\ WF_vars(GateStep)

TypeOK ==
    /\ pc \in {"l4", "l4w", "l6", "l6w", "l7", "l8", "l10", "l10w", "done"}
    /\ status \in {<<>>} \cup {<<rc>> : rc \in ReturnCodes}
    /\ running \subseteq {"check", "fix", "test"}
    /\ fixRc \in {<<>>} \cup {<<rc>> : rc \in ReturnCodes}
    /\ testRc \in {<<>>} \cup {<<rc>> : rc \in ReturnCodes}
    /\ exitStatus \in {<<>>} \cup {<<n>> : n \in 0 .. (ExitModulus - 1)}
    /\ outcome \in {"running", "reformat_reject", "fixer_abort",
                    "tests_finished", "launch_error"}
    /\ formatted \in BOOLEAN
    /\ autoFixed \in BOOLEAN
    /\ fixedBefore \in BOOLEAN
    /\ run \in 1 .. MaxRuns

(***************************************************************************)
(* Shorthands for the properties.                                          *)
(***************************************************************************)
CheckerReturned == status # <<>>
CheckerZero == status = <<0>>
CheckerNonZero == status # <<>> /\ status[1] # 0
FixerSucceeded == fixRc = <<0>>
FixerFailed == fixRc # <<>> /\ fixRc[1] # 0
TestReturned == testRc # <<>>
Ended == pc = "done"

DriftLog == <<"check_start", "check_ret", "fix_start", "fix_ret", "notice", "exit">>
FixAbortLog == <<"check_start", "check_ret", "fix_start", "fix_ret">>
TestsLog == <<"check_start", "check_ret", "test_start", "test_ret">>

(***************************************************************************)
(* C1.  Original statement: whenever the checker returned 0 and the test   *)
(* runner has returned, the gate's exit status equals the test runner's    *)
(* status, whatever that status is.                                        *)
(***************************************************************************)
C1_TestStatusVerbatim ==
    (Ended /\ CheckerZero /\ TestReturned) => exitStatus = testRc

\* C1 as amended: when the checker returned 0 and the test runner has
\* returned, the gate exits with 0 if the test runner returned 0 and with 1
\* (the uncaught CalledProcessError) if it returned any non-zero status.
C1_TestStatusZeroOrOne ==
    (Ended /\ CheckerZero /\ TestReturned) =>
        exitStatus = <<IF testRc[1] = 0 THEN 0 ELSE 1>>

C1_Witness ==
    Ended /\ CheckerZero /\ testRc = <<2>> /\ exitStatus = <<1>>

(***************************************************************************)
(* C2.  Original statement: when the checker returned a non-zero status s  *)
(* and the fixer succeeded, the gate ends with exit status s.              *)
(***************************************************************************)
C2_ExitIsCheckerStatus ==
    (Ended /\ CheckerNonZero /\ FixerSucceeded) => exitStatus = status

\* C2 as amended: when the checker returned a non-zero status s and the
\* fixer succeeded, the gate ends with exit status s modulo 256: s itself
\* when the checker exited with 1..255, and 256 - N when signal N killed the
\* checker (s = -N).  It is never the fixer's status nor a fixed constant.
C2_ExitIsCheckerStatusMod256 ==
    (Ended /\ CheckerNonZero /\ FixerSucceeded) =>
        exitStatus = <<IF status[1] > 0 THEN status[1] ELSE status[1] + 256>>

C2_Witness ==
    /\ Ended
    /\ status = <<0 - 1>>
    /\ FixerSucceeded
    /\ exitStatus = <<255>>
    /\ outcome = "reformat_reject"

(***************************************************************************)
(* C3.  A run that has ended has exit status 0 if and only if the checker  *)
(* returned 0 and the test runner returned 0; every other run ends with a  *)
(* non-zero exit status.                                                   *)
(***************************************************************************)
C3_ExitZeroIff ==
    Ended =>
        /\ exitStatus # <<>>
        /\ (exitStatus = <<0>>) <=> (CheckerZero /\ testRc = <<0>>)

C3_Witness ==
    Ended /\ CheckerZero /\ testRc = <<0>> /\ exitStatus = <<0>>

(***************************************************************************)
(* C4.  Once the checker has returned a non-zero status, the test runner   *)
(* is never invoked in that run, whether the fixer succeeds or fails.      *)
(***************************************************************************)
C4_NoTestsAfterDrift ==
    CheckerNonZero =>
        /\ Count("test_start") = 0
        /\ "test" \notin running
        /\ testRc = <<>>
        /\ pc \notin {"l10", "l10w"}

C4_Witness ==
    Ended /\ CheckerNonZero /\ FixerSucceeded /\ Count("test_start") = 0

(***************************************************************************)
(* C5.  Once the checker has returned 0, the fixer is never invoked and    *)
(* the notice is never printed; everything after the checker's return is   *)
(* the test runner, which is invoked exactly once.                         *)
(***************************************************************************)
C5_FormattedBranch ==
    CheckerZero =>
        /\ Count("fix_start") = 0
        /\ Count("notice") = 0
        /\ "fix" \notin running
        /\ \A i \in DOMAIN log :
              i > 2 => log[i] \in {"test_start", "test_ret", "test_oserror"}
        /\ Count("test_start") = (IF pc = "l10" THEN 0 ELSE 1)

C5_Witness ==
    /\ Ended
    /\ CheckerZero
    /\ TestReturned
    /\ Count("test_start") = 1
    /\ Count("fix_start") = 0

(***************************************************************************)
(* C6.  Once the checker has returned a non-zero status, the fixer is      *)
(* invoked exactly once, and if the fixer succeeds the notice is printed   *)
(* exactly once, before the gate exits.                                    *)
(***************************************************************************)
C6_DriftBranch ==
    CheckerNonZero =>
        /\ Count("fix_start") = (IF pc = "l6" THEN 0 ELSE 1)
        /\ Count("notice") <= 1
        /\ (Ended /\ FixerSucceeded) =>
              /\ Count("notice") = 1
              /\ Count("exit") = 1
              /\ Pos("notice") < Pos("exit")

C6_Witness ==
    /\ Ended
    /\ CheckerNonZero
    /\ FixerSucceeded
    /\ Count("fix_start") = 1
    /\ Count("notice") = 1

(***************************************************************************)
(* C7.  When the fixer has returned a non-zero status the run is over at   *)
(* once: no notice, no test runner, the fixer was invoked once only, and   *)
(* the exit status is non-zero.                                            *)
(***************************************************************************)
C7_FixerFailureAborts ==
    FixerFailed =>
        /\ Ended
        /\ running = {}
        /\ Count("notice") = 0
        /\ Count("test_start") = 0
        /\ Count("fix_start") = 1
        /\ exitStatus # <<>>
        /\ exitStatus[1] # 0
        /\ log[Len(log)] = "fix_ret"

C7_Witness ==
    Ended /\ FixerFailed /\ outcome = "fixer_abort" /\ exitStatus = <<1>>

(***************************************************************************)
(* C8.  A run that starts on the tree as the previous run's successful     *)
(* fixer left it takes the already-formatted branch: its checker returns   *)
(* 0, it invokes no fixer, prints no notice, and invokes the test runner.  *)
(***************************************************************************)
C8_SecondRunFormatted ==
    (fixedBefore /\ CheckerReturned) =>
        /\ CheckerZero
        /\ Count("fix_start") = 0
        /\ Count("notice") = 0
        /\ pc \in {"l10", "l10w", "done"}
        /\ Ended => Count("test_start") = 1

C8_Witness ==
    /\ run = 2
    /\ fixedBefore
    /\ Ended
    /\ CheckerZero
    /\ TestReturned
    /\ log = TestsLog

(***************************************************************************)
(* C9.  Order of events in a run: the checker is the first subprocess and  *)
(* has ended before anything else happens; on the drift branch the fixer   *)
(* has ended before the notice, and the notice precedes the exit; at most  *)
(* one subprocess is alive at any time, and while one is alive the script  *)
(* is blocked in the call that started it.                                 *)
(***************************************************************************)
C9_EventOrder ==
    /\ Len(log) >= 1 => log[1] = "check_start"
    /\ Len(log) >= 2 => log[2] \in {"check_ret", "check_oserror"}
    /\ \A i \in DOMAIN log :
          /\ log[i] = "notice" => (i > 1 /\ log[i - 1] = "fix_ret")
          /\ log[i] = "exit" => (i > 1 /\ log[i - 1] = "notice")
          /\ log[i] = "fix_ret" => (i > 1 /\ log[i - 1] = "fix_start")
    /\ Cardinality(running) <= 1
    /\ "check" \in running <=> pc = "l4w"
    /\ "fix" \in running <=> pc = "l6w"
    /\ "test" \in running <=> pc = "l10w"

C9_Witness ==
    Ended /\ log = DriftLog /\ running = {}

(***************************************************************************)
(* C10.  When every subprocess that was launched returns, every run ends,  *)
(* and it ends as reformat-and-reject, fixer abort or tests finished, with *)
(* no loop: one checker invocation, at most one fixer or test runner       *)
(* invocation and never both.  (A run in which cargo could not be launched *)
(* has no subprocess that returns; it ends too, with the uncaught OSError.)*)
(***************************************************************************)
C10_InvocationCounts ==
    /\ Count("check_start") = (IF pc = "l4" THEN 0 ELSE 1)
    /\ Count("fix_start") + Count("test_start") <= 1
    /\ (Ended /\ outcome # "launch_error") =>
          \/ outcome = "reformat_reject" /\ log = DriftLog
          \/ outcome = "fixer_abort" /\ log = FixAbortLog
          \/ outcome = "tests_finished" /\ log = TestsLog

C10_Terminates ==
    /\ [](C10_InvocationCounts)
    /\ [](~Ended => <>Ended)

C10_Witness ==
    Ended /\ outcome = "tests_finished" /\ log = TestsLog /\ run = 1

=============================================================================
